---------------------------- MODULE Spec2Model ----------------------------
(***************************************************************************)
(* Model of src/main.py: the chord-timeline-to-MIDI synthesizer            *)
(* (ChordRecognizer) and the effects pipeline                              *)
(* (AudioMastering.process_audio_with_pedalboard).                         *)
(*                                                                         *)
(* Three specifications share the variables:                               *)
(*   MidiSpec   one ChordRecognizer object and the calls made on it        *)
(*   Spec       one call of process_audio_with_pedalboard                  *)
(*   WidenSpec  stereo_widen applied to float32 buffers                    *)
(***************************************************************************)
EXTENDS Integers, Sequences, FiniteSets, TLC

VARIABLES
    \* ---- ChordRecognizer (src/main.py:28-76)
    chords,         \* self.chords: None or Some(sequence of <<start, end, label>>)
    notes,          \* self.instrument_chords.notes
    instruments,    \* self.midi_chords.instruments (the instrument's program, once per append)
    midi_status,    \* "ok", or the exception that left a method of the recognizer
    \* ---- AudioMastering.process_audio_with_pedalboard (src/main.py:92-126)
    pc,             \* position in the function
    chain_arg,      \* None, or Some(chain) when the caller passes a chain as a third argument
    infile,         \* the file at input_path: None or Some([samplerate, num_channels])
    sample_rate,    \* local sample_rate (0 while unbound)
    audio,          \* local audio / processed_audio: a sequence of channel rows (<<>> while unbound)
    status,         \* "ok", or the exception that left the function
    outfile,        \* the file at output_path: None or Some([samplerate, num_channels, audio])
    \* ---- stereo_widen on float32 data (src/main.py:97-103)
    wpc, x, w1, w2, once, twice, direct

midi_vars  == <<chords, notes, instruments, midi_status>>
pipe_vars  == <<pc, chain_arg, infile, sample_rate, audio, status, outfile>>
widen_vars == <<wpc, x, w1, w2, once, twice, direct>>
vars == <<midi_vars, pipe_vars, widen_vars>>

\* An optional value is the empty set (None) or a singleton.
None == {}
Some(v) == {v}
The(o) == CHOOSE v \in o : TRUE

Range(s) == {s[i] : i \in DOMAIN s}

(***************************************************************************)
(* Bounds.                                                                 *)
(***************************************************************************)
MaxChords   == 2    \* longest chord timeline
MaxRuns     == 2    \* calls of generate_midi on one recognizer
MaxChannels == 2    \* channel count of the input file
MaxFrames   == 1    \* frames per channel of a float32 buffer

(***************************************************************************)
(* ChordRecognizer.chord_to_midi_notes: a pitch name is the sequence of    *)
(* its characters, 'F#4' is <<"F", "#", "4">>.                             *)
(***************************************************************************)
note_mapping ==
    ("C:maj" :> << <<"C","4">>, <<"E","4">>,     <<"G","4">> >>) @@
    ("C:min" :> << <<"C","4">>, <<"E","-","4">>, <<"G","4">> >>) @@
    ("D:maj" :> << <<"D","4">>, <<"F","#","4">>, <<"A","4">> >>) @@
    ("D:min" :> << <<"D","4">>, <<"F","4">>,     <<"A","4">> >>) @@
    ("E:maj" :> << <<"E","4">>, <<"G","#","4">>, <<"B","4">> >>) @@
    ("E:min" :> << <<"E","4">>, <<"G","4">>,     <<"B","4">> >>) @@
    ("F:maj" :> << <<"F","4">>, <<"A","4">>,     <<"C","5">> >>) @@
    ("F:min" :> << <<"F","4">>, <<"A","-","4">>, <<"C","5">> >>) @@
    ("G:maj" :> << <<"G","4">>, <<"B","4">>,     <<"D","5">> >>) @@
    ("G:min" :> << <<"G","4">>, <<"B","-","4">>, <<"D","5">> >>) @@
    ("A:maj" :> << <<"A","4">>, <<"C","#","5">>, <<"E","5">> >>) @@
    ("A:min" :> << <<"A","4">>, <<"C","5">>,     <<"E","5">> >>) @@
    ("B:maj" :> << <<"B","4">>, <<"D","#","5">>, <<"F","#","5">> >>) @@
    ("B:min" :> << <<"B","4">>, <<"D","5">>,     <<"F","#","5">> >>)

\* A lookup that raises KeyError for a label the table lacks (note_mapping[chord_name]).
chord_to_midi_notes_strict(chord_name) ==
    IF chord_name \in DOMAIN note_mapping
    THEN [raised |-> FALSE, value |-> note_mapping[chord_name]]
    ELSE [raised |-> TRUE,  value |-> <<>>]

\* note_mapping.get(chord_name, [])
chord_to_midi_notes(chord_name) ==
    IF chord_name \in DOMAIN note_mapping
    THEN [raised |-> FALSE, value |-> note_mapping[chord_name]]
    ELSE [raised |-> FALSE, value |-> <<>>]

(***************************************************************************)
(* librosa.note_to_midi as generate_midi calls it (round_midi=True).  The  *)
(* note must match                                                         *)
(*   ^[A-Ga-g] [#b!]* ([+-]?\d+)? ([+-]\d+)? $                             *)
(* (note, accidental, octave, cents) or ParameterError is raised; then     *)
(*   12 * (octave + 1) + pitch_map[note] + sum(acc_map) + cents / 100      *)
(* is rounded to the nearest integer, ties to even (numpy.round).  The     *)
(* Unicode accidentals newer librosa versions also accept are left out: no *)
(* name of the table uses one.  '-' is a sign, never an accidental.        *)
(***************************************************************************)
pitch_map == ("C" :> 0) @@ ("D" :> 2) @@ ("E" :> 4) @@ ("F" :> 5) @@
             ("G" :> 7) @@ ("A" :> 9) @@ ("B" :> 11)
acc_map   == ("#" :> 1) @@ ("b" :> -1) @@ ("!" :> -1)
upper     == ("a" :> "A") @@ ("b" :> "B") @@ ("c" :> "C") @@ ("d" :> "D") @@
             ("e" :> "E") @@ ("f" :> "F") @@ ("g" :> "G") @@
             [c \in DOMAIN pitch_map |-> c]
digit     == ("0" :> 0) @@ ("1" :> 1) @@ ("2" :> 2) @@ ("3" :> 3) @@ ("4" :> 4) @@
             ("5" :> 5) @@ ("6" :> 6) @@ ("7" :> 7) @@ ("8" :> 8) @@ ("9" :> 9)
signs     == {"+", "-"}

\* First index at or after i whose character is not in set S (Len + 1 at the end).
RECURSIVE SkipWhile(_, _, _)
SkipWhile(note, i, S) ==
    IF i <= Len(note) /\ note[i] \in S THEN SkipWhile(note, i + 1, S) ELSE i

\* int() of the digits note[i..j-1].
RECURSIVE DigitsValue(_, _, _)
DigitsValue(note, i, j) ==
    IF j <= i THEN 0 ELSE 10 * DigitsValue(note, i, j - 1) + digit[note[j - 1]]

\* Sum of acc_map over the accidentals note[i..j-1].
RECURSIVE AccSum(_, _, _)
AccSum(note, i, j) ==
    IF j <= i THEN 0 ELSE AccSum(note, i, j - 1) + acc_map[note[j - 1]]

\* [+-]?\d+ at index i: [ok, next, value]; ok is FALSE when no digit follows.
SignedInt(note, i, signRequired) ==
    LET hasSign == i <= Len(note) /\ note[i] \in signs
        d0      == IF hasSign THEN i + 1 ELSE i
        d1      == SkipWhile(note, d0, DOMAIN digit)
        mag     == DigitsValue(note, d0, d1)
    IN  [ok    |-> d1 > d0 /\ (hasSign \/ ~signRequired),
         next  |-> d1,
         value |-> IF hasSign /\ note[i] = "-" THEN -mag ELSE mag]

\* numpy.round: to the nearest integer, ties to the even one; num / den with den > 0.
RoundHalfEven(num, den) ==
    LET q == num \div den
        r == num % den
    IN  IF 2 * r > den \/ (2 * r = den /\ q % 2 = 1) THEN q + 1 ELSE q

note_to_midi(note) ==
    IF Len(note) = 0 \/ note[1] \notin DOMAIN upper
    THEN [raised |-> TRUE, value |-> 0]
    ELSE
    LET a1     == SkipWhile(note, 2, DOMAIN acc_map)
        oct    == SignedInt(note, a1, FALSE)
        o1     == IF oct.ok THEN oct.next ELSE a1
        cts    == SignedInt(note, o1, TRUE)
        c1     == IF cts.ok THEN cts.next ELSE o1
        octave == IF oct.ok THEN oct.value ELSE 0
        cents  == IF cts.ok THEN cts.value ELSE 0
        base   == 12 * (octave + 1) + pitch_map[upper[note[1]]] + AccSum(note, 2, a1)
    IN  IF c1 # Len(note) + 1
        THEN [raised |-> TRUE, value |-> 0]
        ELSE [raised |-> FALSE, value |-> RoundHalfEven(100 * base + cents, 100)]

(***************************************************************************)
(* ChordRecognizer.generate_midi.                                          *)
(***************************************************************************)
velocity == 100

\* pretty_midi.Note(velocity, pitch, start, end): the fields are stored as given.
Note(vel, pitch, start, end) ==
    [velocity |-> vel, pitch |-> pitch, start |-> start, end |-> end]

\* The inner loop over one chord's pitch names from index k on, appending to acc.
RECURSIVE NameLoop(_, _, _, _)
NameLoop(chord, names, k, acc) ==
    IF k > Len(names) THEN [raised |-> FALSE, notes |-> acc]
    ELSE LET m == note_to_midi(names[k])
         IN  IF m.raised THEN [raised |-> TRUE, notes |-> acc]
             ELSE NameLoop(chord, names, k + 1,
                           Append(acc, Note(velocity, m.value, chord[1], chord[2])))

\* A loop body that emits the chord's first pitch only.
ChordBodyRootOnly(chord, acc) ==
    IF chord[3] # "N"
    THEN LET got == chord_to_midi_notes(chord[3])
         IN  IF got.raised THEN [raised |-> TRUE, notes |-> acc]
             ELSE NameLoop(chord, SubSeq(got.value, 1, 1), 1, acc)
    ELSE [raised |-> FALSE, notes |-> acc]

\* The body of `for chord in self.chords`, appending to acc.
ChordBody(chord, acc) ==
    IF chord[3] # "N"
    THEN LET got == chord_to_midi_notes(chord[3])
         IN  IF got.raised THEN [raised |-> TRUE, notes |-> acc]
             ELSE NameLoop(chord, got.value, 1, acc)
    ELSE [raised |-> FALSE, notes |-> acc]

RECURSIVE ChordLoop(_, _, _)
ChordLoop(cs, i, acc) ==
    IF i > Len(cs) THEN [raised |-> FALSE, notes |-> acc]
    ELSE LET r == ChordBody(cs[i], acc)
         IN  IF r.raised THEN r ELSE ChordLoop(cs, i + 1, r.notes)

program == 0    \* Acoustic Grand Piano

\* autochord.recognize: any timeline of intervals (start < end) ordered by start,
\* gaps and overlaps included.  Times are opaque to the code, which only copies
\* them: three instants give disjoint, overlapping, nested and equal intervals.
Labels    == DOMAIN note_mapping \cup {"N", "C#:maj"}
Times     == {0, 1, 2}
Intervals == {c \in Times \X Times \X Labels : c[1] < c[2]}
Timelines ==
    {t \in UNION {[1..n -> Intervals] : n \in 0..MaxChords} :
        \A i \in 1..(Len(t) - 1) : t[i][1] <= t[i + 1][1]}

MidiInit ==
    /\ chords = None
    /\ notes = <<>>
    /\ instruments = <<>>
    /\ midi_status = "ok"

\* recognize_chords
RecognizeChords ==
    /\ midi_status = "ok"
    /\ chords = None
    /\ \E t \in Timelines : chords' = Some(t)
    /\ UNCHANGED <<notes, instruments, midi_status>>

\* generate_midi; iterating over None raises TypeError before anything is appended.
GenerateMidi ==
    /\ midi_status = "ok"
    /\ Len(instruments) < MaxRuns
    /\ IF chords = None
       THEN /\ midi_status' = "TypeError"
            /\ UNCHANGED <<notes, instruments>>
       ELSE LET r == ChordLoop(The(chords), 1, notes)
            IN  /\ notes' = r.notes
                /\ IF r.raised
                   THEN midi_status' = "raised" /\ UNCHANGED instruments
                   ELSE instruments' = Append(instruments, program)
                        /\ UNCHANGED midi_status
    /\ UNCHANGED chords



(***************************************************************************)
(* float32 and float64 values: [m, e] is m * 2^e, kept with m odd (or 0,   *)
(* 0 for zero).  The exponent range is not modelled: the values used stay  *)
(* far from overflow and underflow.                                        *)
(***************************************************************************)
Float32Bits == 24    \* significand of numpy.float32, the dtype AudioFile.read returns
Float64Bits == 53    \* significand of a Python float

RECURSIVE Pow2(_)
Pow2(k) == IF k = 0 THEN 1 ELSE 2 * Pow2(k - 1)

RECURSIVE BitLen(_)
BitLen(n) == IF n = 0 THEN 0 ELSE 1 + BitLen(n \div 2)

Abs(n) == IF n < 0 THEN -n ELSE n

RECURSIVE Normalize(_)
Normalize(v) ==
    IF v.m = 0 THEN [m |-> 0, e |-> 0]
    ELSE IF v.m % 2 = 0 THEN Normalize([m |-> v.m \div 2, e |-> v.e + 1])
    ELSE v

\* v rounded to p significant bits, to nearest, ties to even.
ToPrecision(v, p) ==
    LET mag == Abs(v.m)
        s   == BitLen(mag) - p
    IN  IF s <= 0 THEN Normalize(v)
        ELSE LET q == RoundHalfEven(mag, Pow2(s))
             IN  Normalize([m |-> IF v.m < 0 THEN -q ELSE q, e |-> v.e + s])

float32(v) == ToPrecision(v, Float32Bits)
float64(v) == ToPrecision(v, Float64Bits)

\* The product of two Python floats.
PyMul(a, b) == float64([m |-> a.m * b.m, e |-> a.e + b.e])

\* A float32 element times a Python float: numpy converts the scalar to float32
\* and rounds the product to float32.
F32TimesScalar(s, width) ==
    LET w == float32(width)
    IN  float32([m |-> s.m * w.m, e |-> s.e + w.e])

(***************************************************************************)
(* A channel row of a 2-d array (channels, frames) is either               *)
(*   [kind |-> "f32", samples |-> <<float32, ...>>]   known samples, or    *)
(*   [kind |-> "opaque", chan |-> c, ops |-> <<...>>] the samples of input *)
(*       channel c after the named operations, in order.                   *)
(***************************************************************************)
OpaqueRow(c) == [kind |-> "opaque", chan |-> c, ops |-> <<>>]

\* row * width
RowTimes(row, width) ==
    IF row.kind = "f32"
    THEN [row EXCEPT !.samples = [k \in DOMAIN @ |-> F32TimesScalar(@[k], width)]]
    ELSE [row EXCEPT !.ops = Append(@, "stereo_widen")]

\* A plugin or filter applied to every row.
Apply(a, op) == [i \in DOMAIN a |-> [a[i] EXCEPT !.ops = Append(@, op)]]

Uninitialized == [kind |-> "uninitialized"]

\* float32(1.2) = 0x3F99999A, the value the default width=1.2 multiplies float32 data by.
DefaultWidth == [m |-> 5033165, e |-> -22]

\* A widen that multiplies the argument array in place (audio[0::2] *= width).
stereo_widen_inplace(a, width) ==
    LET w == [i \in DOMAIN a |-> RowTimes(a[i], width)]
    IN  [raised |-> FALSE, audio |-> w, ret |-> w]

\* stereo_widen(audio, width): audio[0::2] and audio[1::2] are the rows at even
\* and odd 0-based index.  Returns the argument array as the call leaves it and
\* the array returned.
stereo_widen(a, width) ==
    LET n == Len(a)
        left_channel  == [k \in 1..((n + 1) \div 2) |-> RowTimes(a[2 * k - 1], width)]
        right_channel == [k \in 1..(n \div 2) |-> RowTimes(a[2 * k], width)]
        empty_like    == [i \in 1..n |-> Uninitialized]
        set_left      == [i \in 1..n |-> IF i % 2 = 1 THEN left_channel[(i + 1) \div 2]
                                         ELSE empty_like[i]]
        set_right     == [i \in 1..n |-> IF i % 2 = 0 THEN right_channel[i \div 2]
                                         ELSE set_left[i]]
    IN  [raised |-> FALSE, audio |-> a, ret |-> set_right]

(***************************************************************************)
(* reduce_piano_volume.  A normalized cutoff freq / (0.5 * sample_rate) is *)
(* compared as the fraction 2 * freq / sample_rate.                        *)
(***************************************************************************)
freq_low     == 200
freq_high    == 2000
reduction_db == -18

\* A filter design that does not check the cutoffs against Nyquist.
butter_unchecked(N, low_f, high_f, sr) ==
    [raised |-> 2 * low_f <= 0 \/ ~(low_f < high_f)]

\* scipy.signal.butter(N, [low, high], btype='band'): ValueError unless
\* 0 < low < high < 1.
butter(N, low_f, high_f, sr) ==
    [raised |-> \/ 2 * low_f <= 0 \/ 2 * high_f <= 0
                \/ ~(low_f < high_f)
                \/ 2 * low_f >= sr \/ 2 * high_f >= sr]

reduce_piano_volume(a, sr, low_f, high_f, db) ==
    IF sr = 0 \/ butter(1, low_f, high_f, sr).raised
    THEN [raised |-> TRUE, ret |-> <<>>]
    ELSE [raised |-> FALSE, ret |-> Apply(a, "reduce_piano_volume")]

(***************************************************************************)
(* process_audio_with_pedalboard(self, input_path, output_path).           *)
(***************************************************************************)
board_limiter_first == <<"HighpassFilter", "Limiter", "Compressor", "Reverb", "Gain">>

board == <<"HighpassFilter", "Compressor", "Limiter", "Reverb", "Gain">>

\* Pedalboard.__call__: the plugins in list order, each on the previous one's output.
RECURSIVE RunPlugins(_, _, _)
RunPlugins(plugins, i, a) ==
    IF i > Len(plugins) THEN a ELSE RunPlugins(plugins, i + 1, Apply(a, plugins[i]))

SampleRates == {2000, 4000, 4001, 8000, 22050, 44100, 48000}
InputFiles  == {[samplerate |-> sr, num_channels |-> c] :
                    sr \in SampleRates, c \in 1..MaxChannels}

PipeInit ==
    /\ pc = "idle"
    /\ chain_arg = None
    /\ infile \in {None} \cup {Some(f) : f \in InputFiles}
    /\ sample_rate = 0
    /\ audio = <<>>
    /\ status = "ok"
    /\ outfile = None

\* The call.  The signature takes the two paths only: a third positional
\* argument raises TypeError before the body runs.
Call ==
    /\ pc = "idle"
    /\ \E c \in {None, Some(<<>>), Some(board)} :
          /\ chain_arg' = c
          /\ IF c # None
             THEN pc' = "raised" /\ status' = "TypeError"
             ELSE pc' = "read" /\ UNCHANGED status
    /\ UNCHANGED <<infile, sample_rate, audio, outfile>>

\* with AudioFile(input_path) as f: audio = f.read(f.frames); sample_rate = f.samplerate
Read ==
    /\ pc = "read"
    /\ IF infile = None
       THEN /\ pc' = "raised" /\ status' = "ValueError"
            /\ UNCHANGED <<sample_rate, audio>>
       ELSE /\ audio' = [c \in 1..The(infile).num_channels |-> OpaqueRow(c)]
            /\ sample_rate' = The(infile).samplerate
            /\ pc' = "board"
            /\ UNCHANGED status
    /\ UNCHANGED <<chain_arg, infile, outfile>>

\* processed_audio = board(audio, sample_rate)
RunBoard ==
    /\ pc = "board"
    /\ audio' = RunPlugins(board, 1, audio)
    /\ pc' = "stereo_widen"
    /\ UNCHANGED <<chain_arg, infile, sample_rate, status, outfile>>

\* processed_audio = stereo_widen(processed_audio)
StereoWiden ==
    /\ pc = "stereo_widen"
    /\ LET r == stereo_widen(audio, DefaultWidth)
       IN  IF r.raised
           THEN pc' = "raised" /\ status' = "ChannelCountMismatch" /\ UNCHANGED audio
           ELSE pc' = "reduce_piano_volume" /\ audio' = r.ret /\ UNCHANGED status
    /\ UNCHANGED <<chain_arg, infile, sample_rate, outfile>>

\* A step that records the failure and goes on to the write.
ReducePianoVolumeSwallow ==
    /\ pc = "reduce_piano_volume"
    /\ LET r == reduce_piano_volume(audio, sample_rate, freq_low, freq_high, reduction_db)
       IN  IF r.raised
           THEN pc' = "write" /\ status' = "ValueError" /\ UNCHANGED audio
           ELSE pc' = "write" /\ audio' = r.ret /\ UNCHANGED status
    /\ UNCHANGED <<chain_arg, infile, sample_rate, outfile>>

\* processed_audio = reduce_piano_volume(processed_audio, sample_rate)
ReducePianoVolume ==
    /\ pc = "reduce_piano_volume"
    /\ LET r == reduce_piano_volume(audio, sample_rate, freq_low, freq_high, reduction_db)
       IN  IF r.raised
           THEN pc' = "raised" /\ status' = "ValueError" /\ UNCHANGED audio
           ELSE pc' = "write" /\ audio' = r.ret /\ UNCHANGED status
    /\ UNCHANGED <<chain_arg, infile, sample_rate, outfile>>

\* with AudioFile(output_path, 'w', sample_rate, processed_audio.shape[0]) as f: f.write(...)
Write ==
    /\ pc = "write"
    /\ outfile' = Some([samplerate |-> sample_rate, num_channels |-> Len(audio),
                        audio |-> audio])
    /\ pc' = "done"
    /\ UNCHANGED <<chain_arg, infile, sample_rate, audio, status>>

(***************************************************************************)
(* stereo_widen on float32 buffers: once with w1, then the result with w2, *)
(* and the original with the Python product w1 * w2.                       *)
(***************************************************************************)
F(m, e) == Normalize([m |-> m, e |-> e])

Samples == {F(0, 0), F(1, -1), F(7, -3), F(-3, -2)}         \* 0, 0.5, 0.875, -0.75
Widths1 == {F(1, 0), F(3, -1), DefaultWidth}                \* 1, 1.5, float32(1.2)
Widths2 == {F(1, 0), F(5, -2), F(3, -1)}                    \* 1, 1.25, 1.5

F32Row(ss) == [kind |-> "f32", samples |-> ss]
F32Buffers ==
    UNION {[1..c -> {F32Row(ss) : ss \in [1..f -> Samples]}] :
              c \in 1..MaxChannels, f \in 1..MaxFrames}

WidenInit ==
    /\ wpc = "start"
    /\ x \in F32Buffers
    /\ w1 \in Widths1
    /\ w2 \in Widths2
    /\ once = <<>> /\ twice = <<>> /\ direct = <<>>

WidenOnce ==
    /\ wpc = "start"
    /\ LET r == stereo_widen(x, w1)
       IN  x' = r.audio /\ once' = r.ret
    /\ wpc' = "once"
    /\ UNCHANGED <<w1, w2, twice, direct>>

WidenTwice ==
    /\ wpc = "once"
    /\ LET r == stereo_widen(once, w2)
       IN  once' = r.audio /\ twice' = r.ret
    /\ wpc' = "twice"
    /\ UNCHANGED <<x, w1, w2, direct>>

WidenDirect ==
    /\ wpc = "twice"
    /\ LET r == stereo_widen(x, PyMul(w1, w2))
       IN  x' = r.audio /\ direct' = r.ret
    /\ wpc' = "done"
    /\ UNCHANGED <<w1, w2, once, twice>>

(***************************************************************************)
(* Specifications.                                                         *)
(***************************************************************************)
MidiNext ==
    \/ RecognizeChords /\ UNCHANGED <<pipe_vars, widen_vars>>
    \/ GenerateMidi /\ UNCHANGED <<pipe_vars, widen_vars>>

Next ==
    \/ Call /\ UNCHANGED <<midi_vars, widen_vars>>
    \/ Read /\ UNCHANGED <<midi_vars, widen_vars>>
    \/ RunBoard /\ UNCHANGED <<midi_vars, widen_vars>>
    \/ StereoWiden /\ UNCHANGED <<midi_vars, widen_vars>>
    \/ ReducePianoVolume /\ UNCHANGED <<midi_vars, widen_vars>>
    \/ Write /\ UNCHANGED <<midi_vars, widen_vars>>

WidenNext ==
    \/ WidenOnce /\ UNCHANGED <<midi_vars, pipe_vars>>
    \/ WidenTwice /\ UNCHANGED <<midi_vars, pipe_vars>>
    \/ WidenDirect /\ UNCHANGED <<midi_vars, pipe_vars>>

WidenRest ==
    /\ wpc = "start" /\ x = <<>> /\ w1 = F(1, 0) /\ w2 = F(1, 0)
    /\ once = <<>> /\ twice = <<>> /\ direct = <<>>
PipeRest == PipeInit /\ infile = None

Init          == MidiInit /\ PipeInit /\ WidenRest
MidiSpecInit  == MidiInit /\ PipeRest /\ WidenRest
WidenSpecInit == MidiInit /\ PipeRest /\ WidenInit

Spec      == Init /\ [][Next]_vars
MidiSpec  == MidiSpecInit /\ [][MidiNext]_vars
WidenSpec == WidenSpecInit /\ [][WidenNext]_vars

(***************************************************************************)
(* Properties of the synthesizer, checked under MidiSpec.                  *)
(***************************************************************************)
Count(seq, r) == Cardinality({j \in DOMAIN seq : seq[j] = r})

\* Equality of two sequences as unordered collections.
SameBag(a, b) ==
    /\ Len(a) = Len(b)
    /\ \A r \in Range(a) \cup Range(b) : Count(a, r) = Count(b, r)

\* The pitch names the mapper gives interval i of timeline cs.
NamesOf(cs, i) == chord_to_midi_notes(cs[i][3]).value

\* (interval, pitch) pairs of timeline cs.
PitchPairs(cs) == UNION {{<<i, k>> : k \in 1..Len(NamesOf(cs, i))} : i \in 1..Len(cs)}

\* The event the claim expects for pair p: the pitch of the name, the
\* interval's start and end, velocity 100.
ExpectedEvent(cs, p) ==
    [velocity |-> 100, pitch |-> note_to_midi(NamesOf(cs, p[1])[p[2]]).value,
     start |-> cs[p[1]][1], end |-> cs[p[1]][2]]

ExampleTimeline == << <<0, 1, "C:maj">>, <<1, 2, "N">> >>

\* C1: after one generate_midi over any timeline the track holds exactly one
\* event per pitch of every interval whose label maps to a non-empty pitch set,
\* with that interval's start and end and velocity 100, and nothing else: the
\* event count is the sum of the pitch-set sizes (no deduplication), intervals
\* mapping to the empty set add nothing, and the example timeline
\* [(0,1,"C:maj"), (1,2,"N")] yields exactly C4, E4, G4 (60, 64, 67) over 0..1.
C1_OneEventPerPitch ==
    (chords # None /\ Len(instruments) = 1) =>
        LET cs    == The(chords)
            pairs == PitchPairs(cs)
        IN  /\ midi_status = "ok"
            /\ Len(notes) = Cardinality(pairs)
            /\ \A r \in Range(notes) \cup {ExpectedEvent(cs, p) : p \in pairs} :
                  Count(notes, r) = Cardinality({p \in pairs : ExpectedEvent(cs, p) = r})
            /\ (\A i \in 1..Len(cs) : NamesOf(cs, i) = <<>>) => notes = <<>>
            /\ cs = ExampleTimeline =>
                  /\ Len(notes) = 3
                  /\ Range(notes) = {[velocity |-> 100, pitch |-> q, start |-> 0, end |-> 1] :
                                        q \in {60, 64, 67}}

\* C1 witness: the example timeline synthesized once, three events in the track.
C1_Witness ==
    /\ chords = Some(ExampleTimeline)
    /\ Len(instruments) = 1
    /\ Len(notes) = 3

\* C2: the mapper is a total lookup: "C:maj" gives exactly C4, E4, G4, every
\* label outside the table ("N", an unknown label) gives the empty list without
\* raising, and generate_midi over a timeline never fails on such a label.
C2_MapperTotal ==
    /\ chord_to_midi_notes("C:maj") =
          [raised |-> FALSE, value |-> << <<"C","4">>, <<"E","4">>, <<"G","4">> >>]
    /\ \A l \in Labels \ DOMAIN note_mapping :
          chord_to_midi_notes(l) = [raised |-> FALSE, value |-> <<>>]
    /\ chords # None => midi_status = "ok"
    /\ (chords # None /\ \A i \in 1..Len(The(chords)) :
                            The(chords)[i][3] \notin DOMAIN note_mapping)
          => notes = <<>>

\* C2 witness: generate_midi has completed over a timeline holding an unknown
\* label and the sentinel.
C2_Witness ==
    /\ chords # None
    /\ Len(instruments) >= 1
    /\ midi_status = "ok"
    /\ {The(chords)[i][3] : i \in 1..Len(The(chords))} = {"C#:maj", "N"}

\* C3 (as claimed): every event of the track has pitch in 0..127 and velocity
\* in 0..127.
C3_PitchInMidiRange ==
    \A j \in DOMAIN notes : notes[j].pitch \in 0..127 /\ notes[j].velocity \in 0..127

\* C4 (as claimed): however often generate_midi has run over the timeline, the
\* track holds the instrument once and its events are, as an unordered
\* collection, those of one synthesis of the timeline.
C4_RunTwiceSameTrack ==
    (chords # None /\ Len(instruments) >= 1) =>
        /\ instruments = <<program>>
        /\ SameBag(notes, ChordLoop(The(chords), 1, <<>>).notes)

(***************************************************************************)
(* Properties of the effects pipeline, checked under Spec.                 *)
(***************************************************************************)
AfterWiden == {"reduce_piano_volume", "write", "done"}

\* The rows read from the input file, untouched.
InputRows == [c \in 1..The(infile).num_channels |-> OpaqueRow(c)]

\* C5 (as claimed): a buffer whose channel count is not 2 never gets past
\* stereo_widen: the step fails and returns no buffer.
C5_WidenRejectsNonStereo ==
    (pc \in AfterWiden \/ (pc = "raised" /\ audio # <<>>)) =>
        (Len(audio) # 2 => status = "ChannelCountMismatch")

Cutoffs == {100, 200, 1000, 2000, 4000, 24000}

\* C6: reduce_piano_volume fails, returning no buffer, for every cutoff pair
\* with low >= high or high >= Nyquist (sample_rate / 2) at the sample rate
\* read; with the default 200-2000 Hz band every input of sample rate <= 4000
\* fails at this step and no output file is written.
C6_InvalidBandRejected ==
    /\ sample_rate > 0 =>
          \A lo \in Cutoffs, hi \in Cutoffs :
              (lo >= hi \/ 2 * hi >= sample_rate) =>
                  LET r == reduce_piano_volume(audio, sample_rate, lo, hi, reduction_db)
                  IN  r.raised /\ r.ret = <<>>
    /\ (sample_rate > 0 /\ sample_rate <= 4000) =>
          /\ pc \notin {"write", "done"}
          /\ outfile = None

\* C6 witness: a 4000 Hz input has gone through the board and stereo_widen and
\* reduce_piano_volume has raised.
C6_Witness ==
    /\ sample_rate = 4000
    /\ pc = "raised" /\ status = "ValueError"
    /\ audio # <<>> /\ Len(audio[1].ops) = 6
    /\ outfile = None

ChainOrder == <<"HighpassFilter", "Compressor", "Limiter", "Reverb", "Gain",
                "stereo_widen", "reduce_piano_volume">>

\* C7: the pipeline is fail-fast: once a step has failed the function is left
\* (no later step runs) and no output file exists; an output file exists only
\* when the function is done with every step applied and nothing failed.
C7_FailFastNoPartialOutput ==
    /\ status # "ok" => (pc = "raised" /\ outfile = None)
    /\ outfile # None =>
          /\ status = "ok" /\ pc = "done"
          /\ \A c \in DOMAIN The(outfile).audio : The(outfile).audio[c].ops = ChainOrder

\* C7 witness: a step failed after earlier steps had changed the buffer, and
\* nothing was written.
C7_Witness ==
    /\ pc = "raised" /\ status # "ok"
    /\ audio # <<>> /\ \A c \in DOMAIN audio : audio[c].ops # <<>>
    /\ outfile = None

\* The operations applied to the buffer when control is at position p.
OpsAt(p) ==
    CASE p = "board"               -> 0
      [] p = "stereo_widen"        -> 5
      [] p = "reduce_piano_volume" -> 6
      [] p \in {"write", "done"}   -> 7
      [] OTHER                     -> -1

\* C8: every channel carries the steps exactly once each in the order
\* HighPass, Compressor, Limiter, Reverb, Gain, StereoWiden, BandAttenuate,
\* each applied to the output of the one before: at every position the buffer
\* holds the prefix of that order applied so far, and the file written holds
\* all seven.
C8_FixedStepOrder ==
    /\ \A c \in DOMAIN audio :
          /\ audio[c].kind = "opaque" /\ audio[c].chan = c
          /\ audio[c].ops = SubSeq(ChainOrder, 1, Len(audio[c].ops))
          /\ OpsAt(pc) >= 0 => Len(audio[c].ops) = OpsAt(pc)
    /\ outfile # None =>
          /\ The(outfile).num_channels = The(infile).num_channels
          /\ \A c \in DOMAIN The(outfile).audio :
                /\ The(outfile).audio[c].chan = c
                /\ The(outfile).audio[c].ops = ChainOrder

\* C8 witness: a stereo file has been processed and written.
C8_Witness ==
    /\ pc = "done"
    /\ outfile # None /\ The(outfile).num_channels = 2

\* C9 (as claimed): a caller can supply the chain, and a call that supplies the
\* empty chain on an existing input file succeeds and writes the input buffer
\* unchanged.
C9_EmptyChainIsIdentity ==
    (chain_arg = Some(<<>>) /\ infile # None /\ pc # "idle") =>
        /\ status = "ok"
        /\ pc = "done" => The(outfile).audio = InputRows

(***************************************************************************)
(* Properties of stereo_widen on float32 data, checked under WidenSpec.    *)
(***************************************************************************)
\* sample * width, rounded to float32.
Scaled(s, width) == float32([m |-> s.m * width.m, e |-> s.e + width.e])

\* out is buffer a with every sample of every channel scaled by width.
IsScaled(out, a, width) ==
    /\ Len(out) = Len(a)
    /\ \A c \in DOMAIN a :
          /\ out[c].kind = "f32"
          /\ Len(out[c].samples) = Len(a[c].samples)
          /\ \A k \in DOMAIN a[c].samples :
                out[c].samples[k] = Scaled(a[c].samples[k], width)

\* v is a float32 as it stands.
Representable(v) == BitLen(Abs(v.m)) <= Float32Bits

\* The products the two sides of the composition law form are exact in float32.
ExactProducts ==
    /\ Representable([m |-> w1.m * w2.m, e |-> w1.e + w2.e])
    /\ \A c \in DOMAIN x : \A k \in DOMAIN x[c].samples :
          Representable([m |-> x[c].samples[k].m * w1.m, e |-> x[c].samples[k].e + w1.e])

WidenStateFacts ==
    /\ wpc # "start" =>
          /\ IsScaled(once, x, w1)
          /\ w1 = F(1, 0) => once = x
    /\ wpc \in {"twice", "done"} => IsScaled(twice, once, w2)
    /\ wpc = "done" => IsScaled(direct, x, PyMul(w1, w2))

\* C10 (as claimed): stereo_widen scales every sample of both channels by
\* width, width 1 is the identity, the output has the input's shape, and
\* widen(widen(x, w1), w2) == widen(x, w1 * w2) for all x, w1, w2.
C10_CompositionExact ==
    /\ WidenStateFacts
    /\ wpc = "done" => twice = direct

\* C10 (amended): stereo_widen scales every sample of every channel by width
\* (rounded to float32), width 1 is the identity, the output has the input's
\* shape, the argument array is left as it was, and the composition law holds
\* exactly when w1 * w2 and every x * w1 are exact in float32.
C10_WidenScales ==
    /\ [](/\ WidenStateFacts
          /\ (wpc = "done" /\ ExactProducts) => twice = direct)
    /\ [][x' = x /\ (wpc = "once" => once' = once)]_vars

\* C10 witness: a stereo buffer widened by float32(1.2) and then 1.5, all
\* products exact, both sides equal and different from the input.
C10_Witness ==
    /\ wpc = "done"
    /\ Len(x) = 2
    /\ w1 = DefaultWidth /\ w2 = F(3, -1)
    /\ ExactProducts
    /\ twice = direct /\ twice # x

=============================================================================
